---- MODULE Spec2Model ----
(***************************************************************************)
(* The PNG chunk codec of pngme: ChunkType (src/src/chunk_type.rs) and     *)
(* Chunk (src/src/chunk.rs).                                               *)
(*                                                                         *)
(* A u8 is a number in 0..255.  A u32 is the pair <<hi, lo>> of its two    *)
(* 16-bit halves (value = hi * 65536 + lo), because a full u32 does not    *)
(* fit the model checker's integers.  A byte slice is a sequence of u8.    *)
(* A Result is a record [kind, err, val]: kind "Ok" carries val, kind      *)
(* "Err" carries the error variant in err, kind "Panic" is a Rust panic    *)
(* (the call does not return), with the panicking call in err.             *)
(***************************************************************************)
EXTENDS Integers, Sequences, FiniteSets, TLC

VARIABLES ctIn, ctRes, chunk, wire, tamper, decoded

vars == <<ctIn, ctRes, chunk, wire, tamper, decoded>>

-----------------------------------------------------------------------------
(* Bounds of the model. *)

\* longest payload handed to Chunk::new
MaxLen == 2
\* longest string handed to ChunkType::from_str
MaxStrLen == 5
\* most trailing bytes appended after a serialized chunk
MaxTrail == 1

\* sample bytes for tags and strings: '@' 'Z' '[' '`' 'a'
\* (the last upper-case letter, the first lower-case letter, and the
\* non-letters next to the two letter ranges); all ASCII, so every
\* sequence of them is a valid &str
TagBytes == {64, 90, 91, 96, 97}
\* sample payload bytes
DataBytes == {0, 255}
\* sample trailing bytes (the start of a following chunk)
TrailBytes == {0, 73}

SeqsUpTo(S, n) == UNION {[1..k -> S] : k \in 0..n}

-----------------------------------------------------------------------------
(* u8 / u32 arithmetic *)

Bit(n, k) == (n \div (2^k)) % 2

Xor4 == [a \in 0..15 |-> [b \in 0..15 |->
           ((Bit(a, 0) + Bit(b, 0)) % 2)
           + 2 * ((Bit(a, 1) + Bit(b, 1)) % 2)
           + 4 * ((Bit(a, 2) + Bit(b, 2)) % 2)
           + 8 * ((Bit(a, 3) + Bit(b, 3)) % 2)]]

Xor8(a, b) == Xor4[a \div 16][b \div 16] * 16 + Xor4[a % 16][b % 16]

Xor16(a, b) == Xor8(a \div 256, b \div 256) * 256 + Xor8(a % 256, b % 256)

Xor32(u, v) == <<Xor16(u[1], v[1]), Xor16(u[2], v[2])>>

\* u >> k for 0 < k < 16
Shr(u, k) == <<u[1] \div (2^k), (u[1] % (2^k)) * (2^(16 - k)) + u[2] \div (2^k)>>

\* !u
Not32(u) == <<65535 - u[1], 65535 - u[2]>>

\* n as u32 (usize -> u32, truncating)
AsU32(n) == <<(n \div 65536) % 65536, n % 65536>>

\* (u as usize) > n, without forming the full value of u
UsizeGt(u, n) == \/ u[1] > n \div 65536
                 \/ (u[1] = n \div 65536 /\ u[2] > n % 65536)

\* u as usize, used only where UsizeGt(u, n) is false for a small n
AsUsize(u) == u[1] * 65536 + u[2]

to_be_bytes(u) == <<u[1] \div 256, u[1] % 256, u[2] \div 256, u[2] % 256>>

\* mutant of from_be_bytes: the four bytes read least significant first
from_le_bytes(b) == <<b[4] * 256 + b[3], b[2] * 256 + b[1]>>

from_be_bytes(b) == <<b[1] * 256 + b[2], b[3] * 256 + b[4]>>

-----------------------------------------------------------------------------
(* crc::crc32::checksum_ieee: CRC-32 (IEEE), reflected polynomial          *)
(* 0xEDB88320, table driven, register inverted before and after.           *)

POLY == <<60856, 33568>>

RECURSIVE TableEntry(_, _)
TableEntry(c, n) ==
  IF n = 0 THEN c
  ELSE TableEntry(IF c[2] % 2 = 1 THEN Xor32(POLY, Shr(c, 1)) ELSE Shr(c, 1), n - 1)

IEEE_TABLE == [i \in 0..255 |-> TableEntry(<<0, i>>, 8)]

\* one byte of the table loop: value = table[(value as u8) ^ b] ^ (value >> 8)
UpdateByte(value, b) ==
  Xor32(IEEE_TABLE[Xor8(value[2] % 256, b)], Shr(value, 8))

\* the loop over the bytes.  The test of next is true of every u32: it has
\* the register computed at each byte instead of once at the end.
RECURSIVE update(_, _, _)
update(value, bytes, i) ==
  IF i > Len(bytes) THEN value
  ELSE LET next == UpdateByte(value, bytes[i])
       IN  IF next[1] >= 0 THEN update(next, bytes, i + 1) ELSE next

checksum_ieee(bytes) == Not32(update(Not32(<<0, 0>>), bytes, 1))

-----------------------------------------------------------------------------
(* Results *)

NoType == [chunk |-> <<>>]

NoChunk == [data_length |-> <<0, 0>>, chunk_type |-> NoType,
            chunk_data |-> <<>>, crc |-> <<0, 0>>]

Ok(v) == [kind |-> "Ok", err |-> "", val |-> v]

TypeErr(e) == [kind |-> "Err", err |-> e, val |-> NoType]

ChunkErr(e) == [kind |-> "Err", err |-> e, val |-> NoChunk]

Panic(at) == [kind |-> "Panic", err |-> at, val |-> NoChunk]

NoTypeResult == [kind |-> "None", err |-> "", val |-> NoType]

NoChunkResult == [kind |-> "None", err |-> "", val |-> NoChunk]

-----------------------------------------------------------------------------
(* chunk_type.rs *)

is_ascii_uppercase(b) == 65 <= b /\ b <= 90

is_ascii_lowercase(b) == 97 <= b /\ b <= 122

\* ChunkType::bytes
bytes(t) == t.chunk

is_critical(t) == is_ascii_uppercase(t.chunk[1])

is_public(t) == is_ascii_uppercase(t.chunk[2])

is_reserved_bit_valid(t) == is_ascii_uppercase(t.chunk[3])

is_safe_to_copy(t) == is_ascii_lowercase(t.chunk[4])

\* mutant of is_valid: validity also asks for the safe-to-copy flag
is_valid_all_flags(t) == is_reserved_bit_valid(t) /\ is_safe_to_copy(t)

is_valid(t) == IF is_reserved_bit_valid(t) THEN TRUE ELSE FALSE

\* the loop of ChunkType::try_from: the first non-letter byte returns the error
RECURSIVE TypeLoop(_, _)
TypeLoop(b, i) ==
  IF i > Len(b) THEN Ok([chunk |-> b])
  ELSE IF ~is_ascii_lowercase(b[i]) /\ ~is_ascii_uppercase(b[i])
       THEN TypeErr("InvalidChunkTypeBytes")
       ELSE TypeLoop(b, i + 1)

\* mutant of ChunkType_try_from: one range check from 'A' to 'z'
ChunkType_try_from_one_range(b) ==
  IF \E i \in 1..Len(b) : b[i] < 65 \/ b[i] > 122
  THEN TypeErr("InvalidChunkTypeBytes")
  ELSE Ok([chunk |-> b])

\* impl TryFrom<[u8; 4]> for ChunkType
ChunkType_try_from(b) == TypeLoop(b, 1)

\* mutant of ChunkType_from_str: the letters are validated before the length
ChunkType_from_str_letters_first(s) ==
  IF \E i \in 1..Len(s) : ~is_ascii_lowercase(s[i]) /\ ~is_ascii_uppercase(s[i])
  THEN TypeErr("InvalidChunkTypeBytes")
  ELSE IF Len(s) # 4 THEN TypeErr("InvalidString")
       ELSE Ok([chunk |-> s])

\* impl FromStr for ChunkType; s is s.as_bytes()
ChunkType_from_str(s) ==
  IF Len(s) # 4 THEN TypeErr("InvalidString")
  ELSE ChunkType_try_from(s)

-----------------------------------------------------------------------------
(* chunk.rs *)

\* Chunk::new
Chunk_new(chunk_type, chunk_data) ==
  [data_length |-> AsU32(Len(chunk_data)),
   chunk_type  |-> chunk_type,
   chunk_data  |-> chunk_data,
   crc         |-> checksum_ieee(bytes(chunk_type) \o chunk_data)]

length(c) == c.data_length

chunk_type(c) == c.chunk_type

data(c) == c.chunk_data

\* Chunk::crc: recomputed, the stored field is not read
crc(c) == checksum_ieee(bytes(c.chunk_type) \o data(c))

\* mutant of as_bytes: the length written least significant byte first
as_bytes_le_length(c) ==
  <<c.data_length[2] % 256, c.data_length[2] \div 256,
    c.data_length[1] % 256, c.data_length[1] \div 256>>
    \o bytes(c.chunk_type) \o c.chunk_data \o to_be_bytes(c.crc)

\* Chunk::as_bytes
as_bytes(c) ==
  to_be_bytes(c.data_length) \o bytes(c.chunk_type) \o c.chunk_data
    \o to_be_bytes(c.crc)

\* slice::split_at(mid) panics when mid > len
SplitPanics(s, mid) == mid > Len(s)

SplitHead(s, mid) == SubSeq(s, 1, mid)

SplitTail(s, mid) == SubSeq(s, mid + 1, Len(s))

\* mutant of CheckCrc: the chunk is built without the comparison
CheckCrcSkipped(data_length, ctype, chunk_data, stored, type_buf) ==
  Ok([data_length |-> data_length, chunk_type |-> ctype,
      chunk_data |-> chunk_data, crc |-> stored])

\* the comparison that ends Chunk::try_from
CheckCrc(data_length, ctype, chunk_data, stored, type_buf) ==
  IF stored = checksum_ieee(type_buf \o chunk_data)
  THEN Ok([data_length |-> data_length, chunk_type |-> ctype,
           chunk_data |-> chunk_data, crc |-> stored])
  ELSE ChunkErr("InvalidCRC")

\* mutant of ReadBody: the checksum is read from the last four bytes of the
\* buffer instead of the four bytes after the payload
ReadBodyCrcAtEnd(data_length, ctype, type_buf, rest) ==
  IF UsizeGt(data_length, Len(rest)) THEN Panic("split_at")
  ELSE LET n    == AsUsize(data_length)
           body == SplitHead(rest, n)
           left == SplitTail(rest, n)
       IN  IF SplitPanics(left, 4) THEN Panic("split_at")
           ELSE CheckCrc(data_length, ctype, body,
                         from_be_bytes(SplitTail(left, Len(left) - 4)), type_buf)

\* reading chunk_data and crc, after the tag
ReadBody(data_length, ctype, type_buf, rest) ==
  IF UsizeGt(data_length, Len(rest)) THEN Panic("split_at")
  ELSE LET n    == AsUsize(data_length)
           body == SplitHead(rest, n)
           left == SplitTail(rest, n)
       IN  IF SplitPanics(left, 4) THEN Panic("split_at")
           ELSE CheckCrc(data_length, ctype, body,
                         from_be_bytes(SplitHead(left, 4)), type_buf)

\* reading chunk_type, after data_length
ReadType(data_length, rest) ==
  IF SplitPanics(rest, 4) THEN Panic("split_at")
  ELSE LET type_buf == SplitHead(rest, 4)
           t        == ChunkType_try_from(type_buf)
       IN  IF t.kind # "Ok" THEN Panic("unwrap")
           ELSE ReadBody(data_length, t.val, type_buf, SplitTail(rest, 4))

\* impl TryFrom<&[u8]> for Chunk.  The three try_into()? conversions are
\* applied to the first half of a split_at(4), a slice of exactly four bytes,
\* and cannot fail; what can fail before the comparison panics.
Chunk_try_from(buf) ==
  IF SplitPanics(buf, 4) THEN Panic("split_at")
  ELSE ReadType(from_be_bytes(SplitHead(buf, 4)), SplitTail(buf, 4))

-----------------------------------------------------------------------------
(* The caller: builds a tag, builds a chunk from it, serializes it, hands  *)
(* the bytes (as they are, damaged, cut short or followed by more bytes)   *)
(* to the decoder.                                                         *)

Untouched == [flip |-> 0, trail |-> 0, cut |-> FALSE]

Init ==
  /\ ctIn = [via |-> "none", bytes |-> <<>>]
  /\ ctRes = NoTypeResult
  /\ chunk = [from |-> "none", val |-> NoChunk]
  /\ wire = <<>>
  /\ tamper = Untouched
  /\ decoded = NoChunkResult

TypeTryFrom ==
  /\ ctIn.via = "none" /\ chunk.from = "none"
  /\ \E b \in [1..4 -> TagBytes] :
       /\ ctIn' = [via |-> "bytes", bytes |-> b]
       /\ ctRes' = ChunkType_try_from(b)
  /\ UNCHANGED <<chunk, wire, tamper, decoded>>

TypeFromStr ==
  /\ ctIn.via = "none" /\ chunk.from = "none"
  /\ \E s \in SeqsUpTo(TagBytes, MaxStrLen) :
       /\ ctIn' = [via |-> "str", bytes |-> s]
       /\ ctRes' = ChunkType_from_str(s)
  /\ UNCHANGED <<chunk, wire, tamper, decoded>>

\* Chunk::new takes the ChunkType by value
New ==
  /\ ctRes.kind = "Ok" /\ chunk.from = "none"
  /\ \E p \in SeqsUpTo(DataBytes, MaxLen) :
       chunk' = [from |-> "new", val |-> Chunk_new(ctRes.val, p)]
  /\ ctIn' = [via |-> "moved", bytes |-> <<>>]
  /\ ctRes' = NoTypeResult
  /\ UNCHANGED <<wire, tamper, decoded>>

AsBytes ==
  /\ chunk.from # "none" /\ wire = <<>> /\ tamper = Untouched
  /\ wire' = as_bytes(chunk.val)
  /\ tamper' = Untouched
  /\ decoded' = NoChunkResult
  /\ UNCHANGED <<ctIn, ctRes, chunk>>

FlipByte(b, k) == IF Bit(b, k) = 1 THEN b - 2^k ELSE b + 2^k

\* one bit of the serialized chunk is flipped
FlipBit ==
  /\ wire # <<>> /\ tamper = Untouched /\ decoded.kind = "None"
  /\ \E i \in 1..Len(wire), k \in 0..7 :
       /\ wire' = [wire EXCEPT ![i] = FlipByte(@, k)]
       /\ tamper' = [tamper EXCEPT !.flip = i]
  /\ UNCHANGED <<ctIn, ctRes, chunk, decoded>>

\* the buffer is cut short
Truncate ==
  /\ wire # <<>> /\ tamper = Untouched /\ decoded.kind = "None"
  /\ \E n \in 0..(Len(wire) - 1) : wire' = SplitHead(wire, n)
  /\ tamper' = [tamper EXCEPT !.cut = TRUE]
  /\ UNCHANGED <<ctIn, ctRes, chunk, decoded>>

\* the buffer goes on with the bytes of a following chunk
AppendTrail ==
  /\ wire # <<>> /\ ~tamper.cut /\ tamper.trail < MaxTrail
  /\ decoded.kind = "None"
  /\ \E x \in TrailBytes : wire' = Append(wire, x)
  /\ tamper' = [tamper EXCEPT !.trail = @ + 1]
  /\ UNCHANGED <<ctIn, ctRes, chunk, decoded>>

Decode ==
  /\ (wire # <<>> \/ tamper.cut) /\ decoded.kind = "None"
  /\ decoded' = Chunk_try_from(wire)
  /\ UNCHANGED <<ctIn, ctRes, chunk, wire, tamper>>

\* the decoded chunk replaces the caller's chunk and is serialized again
Reencode ==
  /\ decoded.kind = "Ok" /\ chunk.from = "new"
  /\ chunk' = [from |-> "decoded", val |-> decoded.val]
  /\ wire' = as_bytes(decoded.val)
  /\ tamper' = Untouched
  /\ decoded' = NoChunkResult
  /\ UNCHANGED <<ctIn, ctRes>>

\* scope exit: every value is dropped
Drop ==
  /\ ctIn.via # "none"
  /\ ctIn' = [via |-> "none", bytes |-> <<>>]
  /\ ctRes' = NoTypeResult
  /\ chunk' = [from |-> "none", val |-> NoChunk]
  /\ wire' = <<>>
  /\ tamper' = Untouched
  /\ decoded' = NoChunkResult

Next ==
  \/ TypeTryFrom
  \/ TypeFromStr
  \/ New
  \/ AsBytes
  \/ FlipBit
  \/ Truncate
  \/ AppendTrail
  \/ Decode
  \/ Reencode
  \/ Drop

Spec == Init /\ [][Next]_vars

-----------------------------------------------------------------------------
(* Vocabulary of the properties, stated without the operators above.       *)

AsciiLetters == (65..90) \cup (97..122)

AllLetters(b) == \A i \in 1..Len(b) : b[i] \in AsciiLetters

\* bit 5 of a letter is clear exactly when the letter is upper case
UpperCase(b) == Bit(b, 5) = 0

\* the payload length the first four bytes declare, for a buffer whose
\* declared length is below 65536
DeclaredLen(buf) == buf[3] * 256 + buf[4]

\* the buffer holds the 12 + N bytes its first four bytes declare; a buffer
\* of fewer than 65536 bytes can only hold them when the two high bytes are 0
DeclaredFits(buf) ==
  /\ Len(buf) >= 12
  /\ buf[1] = 0 /\ buf[2] = 0
  /\ Len(buf) >= 12 + DeclaredLen(buf)

TagOf(buf) == SubSeq(buf, 5, 8)

PayloadOf(buf) == SubSeq(buf, 9, 8 + DeclaredLen(buf))

\* the u32 held big-endian in the four bytes after position at
StoredAt(buf, at) ==
  <<buf[at + 1] * 256 + buf[at + 2], buf[at + 3] * 256 + buf[at + 4]>>

StoredCrcOf(buf) == StoredAt(buf, 8 + DeclaredLen(buf))

Crc32Of(buf) == checksum_ieee(TagOf(buf) \o PayloadOf(buf))

Decoded == decoded.kind # "None"

\* the buffer is the serialization of the caller's chunk, as produced
Pristine == wire # <<>> /\ tamper = Untouched

\* chunk.rs:146-150: the CRC-32 of "RuSt" followed by the test message
\* is 2882656334 (0xABD1D84E)
TestMessage ==
  <<84, 104, 105, 115, 32, 105, 115, 32, 119, 104, 101, 114, 101, 32, 121,
    111, 117, 114, 32, 115, 101, 99, 114, 101, 116, 32, 109, 101, 115, 115,
    97, 103, 101, 32, 119, 105, 108, 108, 32, 98, 101, 33>>

RuSt == <<82, 117, 83, 116>>

Rust == <<82, 117, 115, 116>>

CrcTestVector == checksum_ieee(RuSt \o TestMessage) = <<43985, 55374>>

-----------------------------------------------------------------------------
(* The properties. *)

\* C1: round trip.  Decoding the unmodified serialization of a chunk built by
\* Chunk::new succeeds and gives a chunk with the same length(), the same
\* chunk_type(), the same data() and the same crc().
RoundTrip ==
  (chunk.from = "new" /\ Pristine /\ Decoded) =>
     /\ decoded.kind = "Ok"
     /\ length(decoded.val) = length(chunk.val)
     /\ chunk_type(decoded.val) = chunk_type(chunk.val)
     /\ data(decoded.val) = data(chunk.val)
     /\ crc(decoded.val) = crc(chunk.val)

\* a chunk with a non-empty payload has made the round trip
RoundTripWitness ==
  /\ chunk.from = "new" /\ Pristine /\ decoded.kind = "Ok"
  /\ Len(data(chunk.val)) = MaxLen

TamperingDetected ==
  (Decoded /\ tamper.trail = 0 /\ ~tamper.cut
     /\ tamper.flip >= 5 /\ tamper.flip <= Len(wire) - 4) =>
     decoded = ChunkErr("InvalidCRC")

\* C3, what the code does: a flipped tag or payload bit never decodes to a
\* chunk; the result is InvalidCRC when the tag is still four letters and a
\* panic at the unwrap of the tag otherwise.
TamperingOutcome ==
  (Decoded /\ tamper.trail = 0 /\ ~tamper.cut
     /\ tamper.flip >= 5 /\ tamper.flip <= Len(wire) - 4) =>
     IF AllLetters(TagOf(wire)) THEN decoded = ChunkErr("InvalidCRC")
     ELSE decoded = Panic("unwrap")

\* C4: truncated input, as claimed.  A buffer shorter than the 12 + N bytes
\* it declares is answered with an error value, not a panic.
TruncatedIsError ==
  (Decoded /\ ~DeclaredFits(wire)) => decoded.kind = "Err"

\* C4, what the code does: a buffer shorter than it declares panics, in
\* split_at or, when eight bytes are there and the tag is no tag, in unwrap.
TruncatedPanics ==
  (Decoded /\ ~DeclaredFits(wire)) => decoded.kind = "Panic"

\* C5: invalid tag, as claimed.  A buffer of sufficient length whose tag
\* bytes are not all letters is answered with an error value, not a panic.
InvalidTagIsError ==
  (Decoded /\ DeclaredFits(wire) /\ ~AllLetters(TagOf(wire))) =>
     decoded.kind = "Err"

\* C5, what the code does: the unwrap of the tag panics.
InvalidTagPanics ==
  (Decoded /\ DeclaredFits(wire) /\ ~AllLetters(TagOf(wire))) =>
     decoded = Panic("unwrap")

\* C6: serialization layout.  as_bytes() of a chunk from Chunk::new or from a
\* successful Chunk::try_from is the big-endian length, the four tag bytes,
\* the data and the big-endian stored checksum, 12 + length() bytes in all,
\* and length() is the number of data bytes.
SerializationLayout ==
  (chunk.from # "none" /\ Pristine) =>
     LET c == chunk.val
         n == Len(data(c))
     IN  /\ length(c) = <<0, n>>
         /\ Len(wire) = 12 + n
         /\ wire[1] = 0 /\ wire[2] = 0 /\ wire[3] * 256 + wire[4] = n
         /\ \A i \in 1..4 : wire[4 + i] = c.chunk_type.chunk[i]
         /\ \A i \in 1..n : wire[8 + i] = c.chunk_data[i]
         /\ StoredAt(wire, 8 + n) = c.crc
         /\ \A i \in 1..Len(wire) : wire[i] \in 0..255

\* a decoded chunk with an empty payload has been serialized to 12 bytes
LayoutWitness ==
  chunk.from = "decoded" /\ Pristine /\ Len(wire) = 12

\* C7: tag construction from bytes.  ChunkType::try_from succeeds exactly on
\* four ASCII letters and then holds them unchanged; otherwise the result is
\* InvalidChunkTypeBytes; no ChunkType anywhere holds a non-letter.
TagFromBytes ==
  /\ ctIn.via = "bytes" =>
       /\ ctRes.kind = "Ok" <=> AllLetters(ctIn.bytes)
       /\ ctRes.kind = "Ok" => bytes(ctRes.val) = ctIn.bytes
       /\ ctRes.kind # "Ok" => ctRes = TypeErr("InvalidChunkTypeBytes")
  /\ ctRes.kind = "Ok" =>
       Len(ctRes.val.chunk) = 4 /\ AllLetters(ctRes.val.chunk)
  /\ chunk.from # "none" => AllLetters(chunk.val.chunk_type.chunk)
  /\ decoded.kind = "Ok" => AllLetters(decoded.val.chunk_type.chunk)

\* three letters and then a symbol have been refused
TagFromBytesWitness ==
  /\ ctIn.via = "bytes" /\ ctIn.bytes = <<90, 97, 90, 91>>
  /\ ctRes = TypeErr("InvalidChunkTypeBytes")

\* C8: tag construction from text.  A string whose byte length is not 4 gives
\* InvalidString whatever its bytes; a string of 4 bytes gives what
\* ChunkType::try_from gives on them.
TagFromText ==
  ctIn.via = "str" =>
     /\ Len(ctIn.bytes) # 4 => ctRes = TypeErr("InvalidString")
     /\ Len(ctIn.bytes) = 4 =>
          /\ ctRes = ChunkType_try_from(ctIn.bytes)
          /\ AllLetters(ctIn.bytes) => ctRes = Ok([chunk |-> ctIn.bytes])
          /\ ~AllLetters(ctIn.bytes) => ctRes = TypeErr("InvalidChunkTypeBytes")

\* a five-byte string holding a symbol has been refused for its length
TagFromTextWitness ==
  /\ ctIn.via = "str" /\ ctIn.bytes = <<90, 97, 91, 97, 90>>
  /\ ctRes = TypeErr("InvalidString")

\* C9: flag semantics.  Each flag reads the case of one byte: critical from
\* byte 0 upper, public from byte 1 upper, reserved-bit-valid from byte 2
\* upper, safe-to-copy from byte 3 lower; is_valid is the reserved-bit flag
\* alone.  "RuSt" is valid, "Rust" is constructed and not valid.
FlagSemantics ==
  /\ ctRes.kind = "Ok" =>
       LET t == ctRes.val
           b == bytes(ctRes.val)
       IN  /\ is_critical(t) <=> UpperCase(b[1])
           /\ is_public(t) <=> UpperCase(b[2])
           /\ is_reserved_bit_valid(t) <=> UpperCase(b[3])
           /\ is_safe_to_copy(t) <=> ~UpperCase(b[4])
           /\ is_valid(t) <=> UpperCase(b[3])
  /\ LET t == ChunkType_from_str(RuSt)
     IN  /\ t.kind = "Ok"
         /\ is_critical(t.val) /\ ~is_public(t.val)
         /\ is_reserved_bit_valid(t.val) /\ is_safe_to_copy(t.val)
         /\ is_valid(t.val)
  /\ LET t == ChunkType_from_str(Rust)
     IN  /\ t.kind = "Ok"
         /\ ~is_reserved_bit_valid(t.val) /\ ~is_valid(t.val)

\* a tag with the reserved bit lower case and the other flags set has been
\* constructed
FlagWitness ==
  /\ ctRes.kind = "Ok" /\ bytes(ctRes.val) = <<90, 90, 97, 97>>
  /\ ~is_valid(ctRes.val)

\* C10: length-bounded parse.  Decoding a buffer that holds the 12 + N bytes
\* it declares gives what decoding its first 12 + N bytes gives, and a
\* decoded chunk's checksum is the four bytes right after the payload.
LengthBounded ==
  (Decoded /\ DeclaredFits(wire)) =>
     /\ decoded = Chunk_try_from(SubSeq(wire, 1, 12 + DeclaredLen(wire)))
     /\ decoded.kind = "Ok" =>
          /\ decoded.val.crc = StoredCrcOf(wire)
          /\ decoded.val.chunk_data = PayloadOf(wire)

\* a chunk followed by trailing bytes has been decoded
LengthBoundedWitness ==
  /\ tamper.trail = MaxTrail /\ tamper.flip = 0 /\ decoded.kind = "Ok"
  /\ Len(wire) > 12 + DeclaredLen(wire)

====
